---- MODULE Spec2Model ----
(***************************************************************************)
(* StartupManager (src/StartupManager.py): registration of an application  *)
(* in the per-user "run at login" mechanism of Windows, macOS and Linux.   *)
(*                                                                         *)
(* The durable state is the filesystem (startup directories, artifact      *)
(* files) and, on macOS, the set of agents loaded in launchd.  A manager   *)
(* object holds three fields fixed at construction.  Every OS call         *)
(* (os.makedirs, open, write, os.chmod, subprocess.run, os.remove) is an   *)
(* operator on a call context; a call may fail, and the failing call is an *)
(* input of the handler (fault).                                           *)
(***************************************************************************)
EXTENDS Naturals, Sequences, FiniteSets, TLC

VARIABLES
    host,      \* what platform.system() returns on this machine
    mgr,       \* the StartupManager object (constructed, app_name, app_path, system)
    dirs,      \* directories that exist
    files,     \* path -> [content, mode] of the files that exist
    loaded,    \* labels of the agents loaded in launchd
    hist,      \* the last calls made on the manager: [op, ret, failed], oldest first
    effects,   \* the OS calls the last call made, in order: [call, ok]
    pre,       \* the filesystem as it was when the last call started
    pc,        \* per process: position inside enable()/disable()
    cret,      \* per process: what the last finished call gave its caller
    startup_location  \* per process: the location the running call resolved

vars == <<host, mgr, dirs, files, loaded, hist, effects, pre, pc, cret, startup_location>>

----------------------------------------------------------------------------
(* Bounds and input sets *)

HistLen == 3

Platforms == {"Windows", "Darwin", "Linux", "FreeBSD"}
Supported == {"Windows", "Darwin", "Linux"}
AppNames == {"Sample"}
AppPaths == {"/usr/local/bin/sample", "sample", "/no/such/app"}
ExistingPaths == {"/usr/local/bin/sample", "/cwd/sample"}
Faults == {"none", "makedirs", "open", "write", "chmod", "run", "nocmd", "remove"}
Procs == {"p1", "p2"}

----------------------------------------------------------------------------
(* Paths *)

StartupDir == "Startup"
LaunchAgents == "LaunchAgents"
AutostartDir == "autostart"

\* A directory path, and path / "name.ext"
DirPath(d) == [dir |-> d, name |-> "", ext |-> ""]
Join(p, n, e) == [dir |-> p.dir, name |-> n, ext |-> e]

\* os.path.abspath: an absolute path is itself, a relative one is joined to cwd
abspath(p) == IF p = "sample" THEN "/cwd/sample" ELSE p

\* The artifacts present for (app_name, platform): files named after the
\* application in the platform's startup directory
PlatformDir(system) ==
    CASE system = "Windows" -> StartupDir
      [] system = "Darwin"  -> LaunchAgents
      [] system = "Linux"   -> AutostartDir
      [] OTHER              -> "nowhere"

ArtifactsIn(fmap, app_name, system) ==
    {p \in DOMAIN fmap : p.dir = PlatformDir(system) /\ p.name = app_name}

----------------------------------------------------------------------------
(* Call contexts: the filesystem seen by a running call, the exception     *)
(* raised so far ("none" while none), the OS calls made, and the location  *)
(* computed by get_startup_location.  A raised exception skips every later *)
(* call of the try block.                                                  *)

Ctx(d, f, l) ==
    [dirs |-> d, files |-> f, loaded |-> l, exc |-> "none", ev |-> <<>>,
     loc |-> DirPath("nowhere")]

Did(c, call, ok) == [c EXCEPT !.ev = Append(@, [call |-> call, ok |-> ok])]
Raise(c, call, e) == [Did(c, call, FALSE) EXCEPT !.exc = e]

Put(f, p, v) == [q \in DOMAIN f \cup {p} |-> IF q = p THEN v ELSE f[q]]
Drop(f, p) == [q \in DOMAIN f \ {p} |-> f[q]]

\* os.makedirs(d, exist_ok=True)
makedirs(c, d, fault) ==
    IF c.exc # "none" THEN c
    ELSE IF d \in c.dirs THEN Did(c, "makedirs", TRUE)
    ELSE IF fault = "makedirs" THEN Raise(c, "makedirs", "OSError")
    ELSE [Did(c, "makedirs", TRUE) EXCEPT !.dirs = @ \cup {d}]

\* open(p, 'w'): creates the file, or truncates it keeping its mode
open_w(c, p, fault) ==
    IF c.exc # "none" THEN c
    ELSE IF p.dir \notin c.dirs THEN Raise(c, "open", "FileNotFoundError")
    ELSE IF fault = "open" THEN Raise(c, "open", "OSError")
    ELSE [Did(c, "open", TRUE) EXCEPT !.files =
            Put(@, p, [content |-> "",
                       mode |-> IF p \in DOMAIN @ THEN @[p].mode ELSE "0644"])]

\* f.write(content)
write(c, p, content, fault) ==
    IF c.exc # "none" THEN c
    ELSE IF fault = "write" THEN Raise(c, "write", "OSError")
    ELSE IF p \notin DOMAIN c.files THEN Did(c, "write", TRUE)
    ELSE [Did(c, "write", TRUE) EXCEPT !.files[p].content = content]

\* os.chmod(p, mode)
chmod(c, p, mode, fault) ==
    IF c.exc # "none" THEN c
    ELSE IF p \notin DOMAIN c.files THEN Raise(c, "chmod", "FileNotFoundError")
    ELSE IF fault = "chmod" THEN Raise(c, "chmod", "OSError")
    ELSE [Did(c, "chmod", TRUE) EXCEPT !.files[p].mode = mode]

\* os.remove(p)
remove(c, p, fault) ==
    IF c.exc # "none" THEN c
    ELSE IF p \notin DOMAIN c.files THEN Raise(c, "remove", "FileNotFoundError")
    ELSE IF fault = "remove" THEN Raise(c, "remove", "OSError")
    ELSE [Did(c, "remove", TRUE) EXCEPT !.files = Drop(@, p)]

\* subprocess.run([...], check=True): a missing executable raises
\* FileNotFoundError, a non-zero exit raises CalledProcessError.
\* powershell saves the shortcut; launchctl load / unload registers or
\* deregisters the agent described by the plist
run(c, cmd, p, label, fault) ==
    IF c.exc # "none" THEN c
    ELSE IF fault = "nocmd" THEN Raise(c, cmd, "FileNotFoundError")
    ELSE IF fault = "run" THEN Raise(c, cmd, "CalledProcessError")
    ELSE CASE cmd = "powershell" ->
                IF p.dir \notin c.dirs THEN Raise(c, cmd, "CalledProcessError")
                ELSE [Did(c, cmd, TRUE) EXCEPT !.files =
                        Put(@, p, [content |-> "shortcut", mode |-> "0644"])]
           [] cmd = "load" ->
                IF p \notin DOMAIN c.files THEN Raise(c, cmd, "CalledProcessError")
                ELSE [Did(c, cmd, TRUE) EXCEPT !.loaded = @ \cup {label}]
           [] cmd = "unload" ->
                [Did(c, cmd, TRUE) EXCEPT !.loaded = @ \ {label}]

\* Path.exists()
exists(c, p) == p \in DOMAIN c.files

----------------------------------------------------------------------------
(* StartupManager *)

NoManager == [constructed |-> FALSE, app_name |-> "", app_path |-> "", system |-> ""]

\* __init__: stores the fields, then validates that the app path exists.
\* Gives the exception raised ("none") and the object
init_exc(app_path) ==
    IF abspath(app_path) \in ExistingPaths THEN "none" ELSE "FileNotFoundError"

init_obj(app_name, app_path, system) ==
    [constructed |-> TRUE, app_name |-> app_name,
     app_path |-> abspath(app_path), system |-> system]

\* Variant: an unrecognised platform is treated as Linux
get_startup_location_any(self, c, fault) ==
    IF c.exc # "none" THEN c
    ELSE CASE self.system = "Windows" ->
                [c EXCEPT !.loc = DirPath(StartupDir)]
           [] self.system = "Darwin" ->
                [makedirs(c, LaunchAgents, fault) EXCEPT
                    !.loc = Join(DirPath(LaunchAgents), self.app_name, "plist")]
           [] OTHER ->
                [makedirs(c, AutostartDir, fault) EXCEPT
                    !.loc = Join(DirPath(AutostartDir), self.app_name, "desktop")]

\* Variant: a location already taken is not reused, a numbered name is chosen
get_startup_location_fresh(self, c, fault) ==
    IF c.exc # "none" THEN c
    ELSE LET Fresh(p) == IF p \in DOMAIN c.files
                         THEN [p EXCEPT !.ext = "1"] ELSE p
         IN CASE self.system = "Windows" ->
                [c EXCEPT !.loc = DirPath(StartupDir)]
           [] self.system = "Darwin" ->
                [makedirs(c, LaunchAgents, fault) EXCEPT
                    !.loc = Fresh(Join(DirPath(LaunchAgents), self.app_name, "plist"))]
           [] self.system = "Linux" ->
                [makedirs(c, AutostartDir, fault) EXCEPT
                    !.loc = Fresh(Join(DirPath(AutostartDir), self.app_name, "desktop"))]
           [] OTHER ->
                [c EXCEPT !.exc = "NotImplementedError"]

\* _get_startup_location: the context after resolution, loc set
get_startup_location(self, c, fault) ==
    IF c.exc # "none" THEN c
    ELSE CASE self.system = "Windows" ->
                [c EXCEPT !.loc = DirPath(StartupDir)]
           [] self.system = "Darwin" ->
                [makedirs(c, LaunchAgents, fault) EXCEPT
                    !.loc = Join(DirPath(LaunchAgents), self.app_name, "plist")]
           [] self.system = "Linux" ->
                [makedirs(c, AutostartDir, fault) EXCEPT
                    !.loc = Join(DirPath(AutostartDir), self.app_name, "desktop")]
           [] OTHER ->
                [c EXCEPT !.exc = "NotImplementedError"]

\* Variant: the Windows shortcut is looked for without its .lnk suffix
artifact_path_noext(self, loc) ==
    IF self.system = "Windows" THEN Join(loc, self.app_name, "") ELSE loc

\* The path whose existence is_enabled and disable test
artifact_path(self, loc) ==
    IF self.system = "Windows" THEN Join(loc, self.app_name, "lnk") ELSE loc

\* is_enabled: no try block, an exception goes to the caller
is_enabled_ctx(self, c0, fault) == get_startup_location(self, c0, fault)

is_enabled_ret(self, c) ==
    IF c.exc # "none" THEN c.exc
    ELSE IF exists(c, artifact_path(self, c.loc)) THEN "True" ELSE "False"

\* Variant: except OSError, which lets the other exceptions through
CaughtOSError(exc) ==
    IF exc = "none" THEN "True"
    ELSE IF exc \in {"OSError", "FileNotFoundError"} THEN "False"
    ELSE exc

\* except Exception: print, return False
Caught(exc) == IF exc = "none" THEN "True" ELSE "False"

\* enable, Windows branch: PowerShell creates the shortcut
enable_windows(self, c, fault) ==
    run(c, "powershell", Join(c.loc, self.app_name, "lnk"), self.app_name, fault)

\* Variant: the plist is removed again when a later call fails
enable_darwin_rollback(self, c, fault) ==
    LET r == run(chmod(write(open_w(c, c.loc, fault), c.loc, "plist", fault),
                       c.loc, "0644", fault),
                 "load", c.loc, self.app_name, fault)
    IN  IF r.exc # "none" /\ c.loc \in DOMAIN r.files
        THEN [r EXCEPT !.files = Drop(@, c.loc)] ELSE r

\* enable, Darwin branch: write the plist, chmod 0644, launchctl load
enable_darwin(self, c, fault) ==
    run(chmod(write(open_w(c, c.loc, fault), c.loc, "plist", fault),
              c.loc, "0644", fault),
        "load", c.loc, self.app_name, fault)

\* enable, Linux branch: write the .desktop file, chmod 0755
enable_linux(self, c, fault) ==
    chmod(write(open_w(c, c.loc, fault), c.loc, "desktop", fault),
          c.loc, "0755", fault)

\* enable: the body of the try block
enable_ctx(self, c0, fault) ==
    LET c == get_startup_location(self, c0, fault)
    IN  CASE self.system = "Windows" -> enable_windows(self, c, fault)
          [] self.system = "Darwin"  -> enable_darwin(self, c, fault)
          [] self.system = "Linux"   -> enable_linux(self, c, fault)
          [] OTHER -> c

\* disable, Darwin branch: unload the agent, then remove the plist
disable_darwin(self, c, fault) ==
    IF exists(c, c.loc)
    THEN remove(run(c, "unload", c.loc, self.app_name, fault), c.loc, fault)
    ELSE c

\* disable, Windows branch
disable_windows(self, c, fault) ==
    IF exists(c, Join(c.loc, self.app_name, "lnk"))
    THEN remove(c, Join(c.loc, self.app_name, "lnk"), fault)
    ELSE c

\* Variant: the file is removed without the existence test
disable_linux_unchecked(self, c, fault) == remove(c, c.loc, fault)

\* disable, Linux branch
disable_linux(self, c, fault) ==
    IF exists(c, c.loc) THEN remove(c, c.loc, fault) ELSE c

\* disable: the body of the try block
disable_ctx(self, c0, fault) ==
    LET c == get_startup_location(self, c0, fault)
    IN  IF c.exc # "none" THEN c
        ELSE CASE self.system = "Darwin"  -> disable_darwin(self, c, fault)
               [] self.system = "Windows" -> disable_windows(self, c, fault)
               [] self.system = "Linux"   -> disable_linux(self, c, fault)
               [] OTHER -> c

----------------------------------------------------------------------------
(* One caller: whole calls, one after the other *)

\* The OS call whose failure ended the call ("none": no exception; the
\* exception's name when no OS call raised it)
Failed(c) ==
    IF c.exc = "none" THEN "none"
    ELSE IF c.ev # <<>> /\ ~c.ev[Len(c.ev)].ok THEN c.ev[Len(c.ev)].call
    ELSE c.exc

Record(op, ret, failed) ==
    LET h == Append(hist, [op |-> op, ret |-> ret, failed |-> failed])
    IN  IF Len(h) > HistLen THEN Tail(h) ELSE h

Commit(op, ret, c) ==
    /\ dirs' = c.dirs
    /\ files' = c.files
    /\ loaded' = c.loaded
    /\ effects' = c.ev
    /\ pre' = [dirs |-> dirs, files |-> files, loaded |-> loaded]
    /\ hist' = Record(op, ret, Failed(c))

Construct ==
    /\ ~mgr.constructed
    /\ \E n \in AppNames, p \in AppPaths :
        /\ mgr' = IF init_exc(p) = "none" THEN init_obj(n, p, host) ELSE mgr
        /\ Commit("__init__", init_exc(p),
                  [Ctx(dirs, files, loaded) EXCEPT !.exc = init_exc(p)])
    /\ UNCHANGED <<host, pc, cret, startup_location>>

is_enabled ==
    /\ mgr.constructed
    /\ \E fault \in Faults :
        LET c == is_enabled_ctx(mgr, Ctx(dirs, files, loaded), fault)
        IN  Commit("is_enabled", is_enabled_ret(mgr, c), c)
    /\ UNCHANGED <<host, mgr, pc, cret, startup_location>>

enable ==
    /\ mgr.constructed
    /\ \E fault \in Faults :
        LET c == enable_ctx(mgr, Ctx(dirs, files, loaded), fault)
        IN  Commit("enable", Caught(c.exc), c)
    /\ UNCHANGED <<host, mgr, pc, cret, startup_location>>

disable ==
    /\ mgr.constructed
    /\ \E fault \in Faults :
        LET c == disable_ctx(mgr, Ctx(dirs, files, loaded), fault)
        IN  Commit("disable", Caught(c.exc), c)
    /\ UNCHANGED <<host, mgr, pc, cret, startup_location>>

\* Filesystems the program can find: an artifact lies in an existing
\* directory and is as a finished enable() leaves it
FinalFile(p) ==
    CASE p.ext = "lnk"     -> [content |-> "shortcut", mode |-> "0644"]
      [] p.ext = "plist"   -> [content |-> "plist", mode |-> "0644"]
      [] p.ext = "desktop" -> [content |-> "desktop", mode |-> "0755"]

AllDirs == {StartupDir, LaunchAgents, AutostartDir}

CanonicalPaths(n) ==
    { Join(DirPath(StartupDir), n, "lnk"),
      Join(DirPath(LaunchAgents), n, "plist"),
      Join(DirPath(AutostartDir), n, "desktop") }

InitFS ==
    /\ dirs \in SUBSET AllDirs
    /\ \E ps \in SUBSET (UNION {CanonicalPaths(n) : n \in AppNames}) :
        /\ \A p \in ps : p.dir \in dirs
        /\ files = [p \in ps |-> FinalFile(p)]
    /\ loaded \in SUBSET {n \in AppNames :
                            Join(DirPath(LaunchAgents), n, "plist") \in DOMAIN files}

Idle == [p \in Procs |-> "idle"]

Init ==
    /\ host \in Platforms
    /\ mgr = NoManager
    /\ InitFS
    /\ hist = <<>>
    /\ effects = <<>>
    /\ pre = [dirs |-> dirs, files |-> files, loaded |-> loaded]
    /\ pc = Idle
    /\ cret = [p \in Procs |-> "none"]
    /\ startup_location = [p \in Procs |-> DirPath("nowhere")]

Next == Construct \/ is_enabled \/ enable \/ disable

Spec == Init /\ [][Next]_vars

----------------------------------------------------------------------------
(* Two processes, each holding a manager for the same (app_name, platform) *)
(* and calling enable() and disable(); every OS call is a step of its own, *)
(* and the steps of the two processes interleave on the shared filesystem. *)

\* The context a step runs in: the filesystem as it is now, the location
\* the process computed when its call resolved it
Now(p) == [Ctx(dirs, files, loaded) EXCEPT !.loc = startup_location[p]]

\* A step's outcome: the shared state it leaves; an exception ends the call
\* in the except clause, otherwise the call goes on at `next`
Outcome(p, c, next) ==
    /\ dirs' = c.dirs
    /\ files' = c.files
    /\ loaded' = c.loaded
    /\ startup_location' = [startup_location EXCEPT ![p] = c.loc]
    /\ IF c.exc # "none"
       THEN /\ pc' = [pc EXCEPT ![p] = "idle"]
            /\ cret' = [cret EXCEPT ![p] = Caught(c.exc)]
       ELSE IF next = "return"
       THEN /\ pc' = [pc EXCEPT ![p] = "idle"]
            /\ cret' = [cret EXCEPT ![p] = Caught("none")]
       ELSE /\ pc' = [pc EXCEPT ![p] = next]
            /\ cret' = cret
    /\ UNCHANGED <<host, mgr, hist, effects, pre>>

call_enable(p) ==
    /\ pc[p] = "idle"
    /\ pc' = [pc EXCEPT ![p] = "e_resolve"]
    /\ cret' = [cret EXCEPT ![p] = "none"]
    /\ UNCHANGED <<host, mgr, dirs, files, loaded, hist, effects, pre, startup_location>>

call_disable(p) ==
    /\ pc[p] = "idle"
    /\ pc' = [pc EXCEPT ![p] = "d_resolve"]
    /\ cret' = [cret EXCEPT ![p] = "none"]
    /\ UNCHANGED <<host, mgr, dirs, files, loaded, hist, effects, pre, startup_location>>

e_resolve(p) ==
    /\ pc[p] = "e_resolve"
    /\ \E fault \in Faults :
        Outcome(p, get_startup_location(mgr, Now(p), fault),
                CASE mgr.system = "Windows" -> "e_powershell"
                  [] mgr.system \in {"Darwin", "Linux"} -> "e_open"
                  [] OTHER -> "return")

e_powershell(p) ==
    /\ pc[p] = "e_powershell"
    /\ \E fault \in Faults :
        Outcome(p, run(Now(p), "powershell", Join(startup_location[p], mgr.app_name, "lnk"),
                       mgr.app_name, fault), "return")

e_open(p) ==
    /\ pc[p] = "e_open"
    /\ \E fault \in Faults :
        Outcome(p, open_w(Now(p), startup_location[p], fault), "e_write")

e_write(p) ==
    /\ pc[p] = "e_write"
    /\ \E fault \in Faults :
        Outcome(p, write(Now(p), startup_location[p],
                         IF mgr.system = "Darwin" THEN "plist" ELSE "desktop",
                         fault), "e_chmod")

e_chmod(p) ==
    /\ pc[p] = "e_chmod"
    /\ \E fault \in Faults :
        Outcome(p, chmod(Now(p), startup_location[p],
                         IF mgr.system = "Darwin" THEN "0644" ELSE "0755",
                         fault),
                IF mgr.system = "Darwin" THEN "e_load" ELSE "return")

e_load(p) ==
    /\ pc[p] = "e_load"
    /\ \E fault \in Faults :
        Outcome(p, run(Now(p), "load", startup_location[p], mgr.app_name, fault), "return")

d_resolve(p) ==
    /\ pc[p] = "d_resolve"
    /\ \E fault \in Faults :
        Outcome(p, get_startup_location(mgr, Now(p), fault),
                IF mgr.system \in Supported THEN "d_exists" ELSE "return")

d_exists(p) ==
    /\ pc[p] = "d_exists"
    /\ Outcome(p, Now(p),
               IF ~exists(Now(p), artifact_path(mgr, startup_location[p])) THEN "return"
               ELSE IF mgr.system = "Darwin" THEN "d_unload" ELSE "d_remove")

d_unload(p) ==
    /\ pc[p] = "d_unload"
    /\ \E fault \in Faults :
        Outcome(p, run(Now(p), "unload", startup_location[p], mgr.app_name, fault), "d_remove")

d_remove(p) ==
    /\ pc[p] = "d_remove"
    /\ \E fault \in Faults :
        Outcome(p, remove(Now(p), artifact_path(mgr, startup_location[p]), fault), "return")

InitConc ==
    /\ host \in Platforms
    /\ \E n \in AppNames : mgr = init_obj(n, "/usr/local/bin/sample", host)
    /\ InitFS
    /\ hist = <<>>
    /\ effects = <<>>
    /\ pre = [dirs |-> dirs, files |-> files, loaded |-> loaded]
    /\ pc = Idle
    /\ cret = [p \in Procs |-> "none"]
    /\ startup_location = [p \in Procs |-> DirPath("nowhere")]

NextConc ==
    \E p \in Procs :
        \/ call_enable(p) \/ call_disable(p)
        \/ e_resolve(p) \/ e_powershell(p) \/ e_open(p) \/ e_write(p)
        \/ e_chmod(p) \/ e_load(p)
        \/ d_resolve(p) \/ d_exists(p) \/ d_unload(p) \/ d_remove(p)

SpecConc == InitConc /\ [][NextConc]_vars

----------------------------------------------------------------------------
(* Properties *)

Last == hist[Len(hist)]
Prev == hist[Len(hist) - 1]
Prev2 == hist[Len(hist) - 2]

\* The location section 4.2 gives for (app_name, platform)
SpecLocation(app_name, system) ==
    CASE system = "Windows" -> Join(DirPath(StartupDir), app_name, "lnk")
      [] system = "Darwin"  -> Join(DirPath(LaunchAgents), app_name, "plist")
      [] system = "Linux"   -> Join(DirPath(AutostartDir), app_name, "desktop")

Artifacts == ArtifactsIn(files, mgr.app_name, mgr.system)
OnSupported == mgr.constructed /\ mgr.system \in Supported
Called(call) == \E i \in DOMAIN effects : effects[i].call = call
AnyFailed == \E i \in DOMAIN effects : ~effects[i].ok

\* C1 as stated: on a supported platform, enable() immediately followed by
\* is_enabled() makes is_enabled() return true.
C1_EnableThenEnabled ==
    (OnSupported /\ Len(hist) >= 2 /\ Prev.op = "enable" /\ Last.op = "is_enabled")
        => Last.ret = "True"

\* C1 amended: on a supported platform, when enable() returned true, an
\* immediately following is_enabled() returns true.
C1_EnabledAfterSuccessfulEnable ==
    (OnSupported /\ Len(hist) >= 2 /\ Prev.op = "enable" /\ Prev.ret = "True"
        /\ Last.op = "is_enabled")
        => Last.ret = "True"

C1_Witness ==
    /\ OnSupported /\ Len(hist) >= 2
    /\ Prev.op = "enable" /\ Prev.ret = "True"
    /\ Last.op = "is_enabled" /\ Last.ret = "True"
    /\ mgr.system = "Windows"

\* C2: after an enable() that returned true, disable() immediately followed
\* by is_enabled() gives false, whether the unload step inside disable()
\* succeeded or failed (every other step of disable() succeeding).
C2_DisableThenNotEnabled ==
    (OnSupported /\ Len(hist) >= 3
        /\ Prev2.op = "enable" /\ Prev2.ret = "True"
        /\ Prev.op = "disable" /\ Prev.failed \in {"none", "unload"}
        /\ Last.op = "is_enabled")
        => Last.ret = "False"

\* C3: enable() and disable() give their caller true or false and nothing
\* else: false when a call of the sequence failed or the platform is
\* unsupported, and true otherwise.
C3_NeverRaises ==
    (mgr.constructed /\ hist # <<>> /\ Last.op \in {"enable", "disable"})
        => Last.ret = IF AnyFailed \/ mgr.system \notin Supported
                      THEN "False" ELSE "True"

C3_Witness ==
    /\ mgr.constructed /\ hist # <<>>
    /\ Last.op = "disable" /\ Last.ret = "False"
    /\ Last.failed = "unload"
    /\ effects[Len(effects)] = [call |-> "unload", ok |-> FALSE]

LoadFailed(h) == h.op = "enable" /\ h.failed = "load"

C5_NoRollback ==
    /\ (mgr.constructed /\ hist # <<>> /\ LoadFailed(Last)) =>
            /\ mgr.system = "Darwin"
            /\ Last.ret = "False"
            /\ SpecLocation(mgr.app_name, "Darwin") \in DOMAIN files
            /\ files[SpecLocation(mgr.app_name, "Darwin")] =
                    [content |-> "plist", mode |-> "0644"]
    /\ (mgr.constructed /\ Len(hist) >= 2 /\ LoadFailed(Prev)
            /\ Last.op = "is_enabled") =>
            Last.ret = "True"

C5_Witness ==
    /\ mgr.constructed /\ Len(hist) >= 2
    /\ LoadFailed(Prev) /\ Prev.ret = "False"
    /\ Last.op = "is_enabled" /\ Last.ret = "True"

\* C6 as stated: after two enable() calls in succession exactly one
\* artifact exists for (app_name, platform), and the second call returned
\* true.
TwoEnables ==
    OnSupported /\ Len(hist) >= 2 /\ Prev.op = "enable" /\ Last.op = "enable"

C6_TwiceExactlyOne ==
    TwoEnables => Cardinality(Artifacts) = 1 /\ Last.ret = "True"

\* C6 amended: after two enable() calls in succession at most one artifact
\* exists for (app_name, platform); the second call returns true exactly
\* when none of its OS calls failed, and then exactly one artifact exists,
\* at the resolved location.
C6_TwiceAtMostOne ==
    TwoEnables =>
        /\ Cardinality(Artifacts) <= 1
        /\ Last.ret = "True" <=> ~AnyFailed
        /\ Last.ret = "True" =>
                Artifacts = {SpecLocation(mgr.app_name, mgr.system)}

C6_Witness ==
    /\ TwoEnables /\ Prev.ret = "True" /\ Last.ret = "True"
    /\ Artifacts = {SpecLocation(mgr.app_name, mgr.system)}
    /\ mgr.system = "Linux"

\* C7 as stated: disable() with no artifact at the resolved location
\* returns true, removes no file and does not invoke the unloader.
DisabledNothing ==
    /\ OnSupported /\ hist # <<>> /\ Last.op = "disable"
    /\ SpecLocation(mgr.app_name, mgr.system) \notin DOMAIN pre.files

C7_DisableNoArtifact ==
    DisabledNothing =>
        /\ Last.ret = "True"
        /\ files = pre.files
        /\ ~Called("unload") /\ ~Called("remove")

\* C7 amended: disable() with no artifact at the resolved location removes
\* no file and does not invoke the unloader; it returns true unless the
\* creation of the startup directory fails, and then it returns false.
C7_DisableNoArtifactUnlessMakedirs ==
    DisabledNothing =>
        /\ Last.ret = "True" <=> Last.failed # "makedirs"
        /\ Last.ret \in {"True", "False"}
        /\ files = pre.files /\ loaded = pre.loaded
        /\ ~Called("unload") /\ ~Called("remove")

C7_Witness ==
    /\ DisabledNothing /\ Last.ret = "True"
    /\ PlatformDir(mgr.system) \in pre.dirs
    /\ mgr.system = "Linux"

\* C8: on Darwin, when disable() finds the artifact, os.remove is called
\* after the unload attempt whatever that attempt's outcome, and never
\* before it.
C8_RemoveAfterUnloadAttempt ==
    (mgr.constructed /\ mgr.system = "Darwin" /\ hist # <<>>
        /\ Last.op = "disable"
        /\ SpecLocation(mgr.app_name, "Darwin") \in DOMAIN pre.files)
        => \E i, j \in DOMAIN effects :
                /\ i < j
                /\ effects[i].call = "unload"
                /\ effects[j].call = "remove"
                /\ \A k \in DOMAIN effects : k < i => effects[k].call # "remove"

\* C9: is_enabled() leaves the filesystem as it found it: no directory and
\* no file is created.
C9_IsEnabledPureRead ==
    (mgr.constructed /\ hist # <<>> /\ Last.op = "is_enabled")
        => dirs = pre.dirs /\ files = pre.files

\* C10: under every interleaving of the steps of enable() and disable()
\* run by two processes for the same (app_name, platform), a finished call
\* gave true or false to its caller, and at most one artifact exists for
\* the pair, at the resolved location.
C10_RaceKeepsOneArtifact ==
    /\ \A p \in Procs : cret[p] \in {"none", "True", "False"}
    /\ Cardinality(Artifacts) <= 1
    /\ mgr.system \in Supported =>
            Artifacts \subseteq {SpecLocation(mgr.app_name, mgr.system)}

\* One process is past its write when the other has removed the file
C10_Witness ==
    \E p, q \in Procs :
        /\ p # q
        /\ pc[p] = "e_chmod"
        /\ pc[q] = "idle" /\ cret[q] = "True"
        /\ Artifacts = {}
        /\ mgr.system = "Darwin"

====
